---------------------------- MODULE Spec2Model ----------------------------
(***************************************************************************)
(* Model of src/main/c/main.c: the runner that calls the externally linked *)
(* our_code_starts_here, prints its int64_t result with "%" PRId64 "\n"    *)
(* and returns 0.                                                          *)
(*                                                                         *)
(* TLC integers are 32 bits wide, so an int64_t is kept here as its        *)
(* two's-complement representation: NumLimbs limbs of LimbBits bits,       *)
(* least significant limb first.  The decimal conversion of printf is      *)
(* computed on that representation, digit by digit.                        *)
(***************************************************************************)
EXTENDS Integers, Sequences, FiniteSets, TLC

\* int64_t (line 16): the width of the result.
Width == 64

LimbBits == Width \div 4
Base == 2 ^ LimbBits
NumLimbs == Width \div LimbBits
HalfBase == Base \div 2

\* The number of runs of the executable that are followed one after another.
MaxRuns == 2

VARIABLES
  run,       \* number of the current run of the executable (1..MaxRuns)
  prev,      \* <<>> or <<record of the previous run as seen from outside>>
  argc,      \* main's first parameter
  argv,      \* main's second parameter
  env,       \* state of the host's standard output for this run
  pc,        \* position of the (only) thread
  result,    \* the local variable result; <<>> before line 16 assigns it
  passed,    \* the arguments handed to our_code_starts_here
  stdout,    \* characters accepted by the standard output stream
  stderr,    \* characters accepted by the standard error stream
  exitCode,  \* <<>> or <<value returned by main>>
  events     \* what the run has done so far, in order

vars == <<run, prev, argc, argv, env, pc, result, passed, stdout, stderr,
          exitCode, events>>

-----------------------------------------------------------------------------
(* int64_t values as limbs *)

Limbs == 1..NumLimbs

Zero64 == [i \in Limbs |-> 0]

\* The sign-extended int64_t of a small TLC integer n, |n| < HalfBase.
FromInt(n) ==
  IF n >= 0 THEN [i \in Limbs |-> IF i = 1 THEN n ELSE 0]
            ELSE [i \in Limbs |-> IF i = 1 THEN Base + n ELSE Base - 1]

Int64Min == [i \in Limbs |-> IF i = NumLimbs THEN HalfBase ELSE 0]
Int64Max == [i \in Limbs |-> IF i = NumLimbs THEN HalfBase - 1 ELSE Base - 1]

\* 2^31, 2^32, 2^32 + 5, -(2^31) - 1, -(2^32), 100000, 10^18
Pow31 == <<0, HalfBase, 0, 0>>
Pow32 == <<0, 0, 1, 0>>
Pow32Plus5 == <<5, 0, 1, 0>>
BelowInt32 == <<Base - 1, HalfBase - 1, Base - 1, Base - 1>>
MinusPow32 == <<0, 0, Base - 1, Base - 1>>
HundredThousand == <<34464, 1, 0, 0>>
TenTo18 == <<0, 42852, 46771, 3552>>

\* The values the external entry point is let return.
Results ==
  { Int64Min, Int64Max, Zero64, FromInt(-1), FromInt(1), FromInt(10),
    FromInt(-10), FromInt(907), Pow31, Pow32, Pow32Plus5, BelowInt32,
    MinusPow32, HundredThousand, TenTo18 }

IsZero(u) == \A i \in 1..Len(u) : u[i] = 0

IsNegative(r) == r[NumLimbs] >= HalfBase

Complement(u) == [i \in 1..Len(u) |-> Base - 1 - u[i]]

\* u + 1 modulo Base^Len(u)
Inc(u) ==
  LET c[i \in 0..Len(u)] ==
        IF i = 0 THEN 1
        ELSE IF u[i] + c[i - 1] >= Base THEN 1 ELSE 0
  IN  [i \in 1..Len(u) |-> (u[i] + c[i - 1]) % Base]

\* |r| as an unsigned 64-bit number (2^63 for INT64_MIN).
Magnitude(r) == IF IsNegative(r) THEN Inc(Complement(r)) ELSE r

\* Long division of the unsigned u by 10, most significant limb first.
RECURSIVE RemAt(_, _)
RemAt(u, i) == IF i > Len(u) THEN 0 ELSE (RemAt(u, i + 1) * Base + u[i]) % 10

Div10(u) == [i \in 1..Len(u) |-> (RemAt(u, i + 1) * Base + u[i]) \div 10]
Mod10(u) == RemAt(u, 1)

DigitChars == <<"0", "1", "2", "3", "4", "5", "6", "7", "8", "9">>
DigitChar(d) == DigitChars[d + 1]

\* The decimal digits of the unsigned u, none for 0: the digits of u \div 10
\* and then the digit u % 10.  (The quotient q is bound by the set
\* constructor, so that it is computed once at each step.)
RECURSIVE UDigits(_)
UDigits(u) ==
  IF IsZero(u) THEN <<>>
  ELSE CHOOSE s \in { UDigits(q) \o <<DigitChar(Mod10(u))>> : q \in {Div10(u)} } :
         TRUE

\* The unsigned decimal conversion.
FormatUnsigned(u) == IF IsZero(u) THEN <<"0">> ELSE UDigits(u)

\* The conversion "%" PRId64 of line 18: signed decimal of all 64 bits.
Format(r) ==
  IF IsNegative(r) THEN <<"-">> \o FormatUnsigned(Magnitude(r))
                   ELSE FormatUnsigned(r)

\* The low 32 bits of r, sign-extended: r converted to a 32-bit int.
SignExtend32(r) ==
  LET s == IF r[2] >= HalfBase THEN Base - 1 ELSE 0
  IN  [i \in Limbs |-> IF i <= 2 THEN r[i] ELSE s]

\* Variants of line 18 with a slip in it.
\* "%" PRIu64 "\n": the bits read as unsigned.
Printed_unsigned(r) == FormatUnsigned(r) \o <<"\n">>
\* "%d\n": only a 32-bit int is converted.
Printed_int(r) == Format(SignExtend32(r)) \o <<"\n">>
\* "%+" PRId64 "\n": a sign is always printed.
Printed_plus(r) ==
  (IF IsNegative(r) THEN <<>> ELSE <<"+">>) \o Format(r) \o <<"\n">>
\* "%" PRId64 " \n": a blank before the newline.
Printed_blank(r) == Format(r) \o <<" ", "\n">>
\* Text left over from the previous run is written again before the line.
Printed_carry(r) ==
  (IF prev = <<>> THEN <<>> ELSE prev[1].stdout) \o Format(r) \o <<"\n">>
\* printf("%d\n", argc): the argument count is printed, not the result.
Printed_argc(r) == Format(FromInt(argc)) \o <<"\n">>

\* What the printf call of line 18 hands to the stream for a result r.
Printed(r) == Format(r) \o <<"\n">>

\* our_code_starts_here() of line 16 is called with no argument.
CallArguments == <<>>

\* return result: the low byte of the result becomes the exit code.
MainReturnValue_result == result[1] % 256

\* return 0 of line 19.
MainReturnValue == 0

\* Variants of the step after line 18 with a slip in it.
\* The line is printed in a loop.
AfterPrintf_twice(ok) == "reporting"
\* A failed write is tried again.
AfterPrintf_retry(ok) == IF ok THEN "returning" ELSE "reporting"
\* The program waits for a key press before it returns.
AfterPrintf_block(ok) == "blocked"

\* Line 18 discards printf's value: whatever the write did, line 19 is next.
AfterPrintf(ok) == "returning"

-----------------------------------------------------------------------------
(* The host *)

Argvs == { <<"runner">>, <<"runner", "7">>, <<"runner", "-1", "x">> }

\* writable: the stream accepts the text.  closed: the write fails and
\* printf reports it.  broken_pipe: the write raises SIGPIPE, whose default
\* disposition ends the process.
StdoutStates == {"writable", "closed", "broken_pipe"}

Log(e) == events' = Append(events, e)

Outcome == [argv |-> argv, env |-> env, result |-> result, pc |-> pc,
            stdout |-> stdout, stderr |-> stderr, exitCode |-> exitCode]

Terminated == pc \in {"exited", "aborted", "killed"}

-----------------------------------------------------------------------------
(* The run *)

Init ==
  /\ run = 1
  /\ prev = <<>>
  /\ argv \in Argvs
  /\ argc = Len(argv)
  /\ env \in StdoutStates
  /\ pc = "start"
  /\ result = <<>>
  /\ passed = <<>>
  /\ stdout = <<>>
  /\ stderr = <<>>
  /\ exitCode = <<>>
  /\ events = <<>>

\* Line 16: main calls the external entry point.
CallEntryPoint ==
  /\ pc = "start"
  /\ pc' = "computing"
  /\ passed' = CallArguments
  /\ Log("call")
  /\ UNCHANGED <<run, prev, argc, argv, env, result, stdout, stderr, exitCode>>

\* Line 16: the external entry point returns r, which is stored in result.
EntryPointReturns ==
  /\ pc = "computing"
  /\ \E r \in Results : result' = r
  /\ pc' = "reporting"
  /\ Log("return")
  /\ UNCHANGED <<run, prev, argc, argv, env, passed, stdout, stderr, exitCode>>

\* Line 16: the external code traps; the process ends inside the call.
EntryPointAborts ==
  /\ pc = "computing"
  /\ pc' = "aborted"
  /\ Log("abort")
  /\ UNCHANGED <<run, prev, argc, argv, env, result, passed, stdout, stderr,
                 exitCode>>

\* Line 18: printf("%" PRId64 "\n", result).
Printf ==
  /\ pc = "reporting"
  /\ IF env = "writable"
       THEN /\ stdout' = stdout \o Printed(result)
            /\ pc' = AfterPrintf(TRUE)
            /\ Log("write")
       ELSE /\ stdout' = stdout
            /\ pc' = IF env = "broken_pipe" THEN "killed" ELSE AfterPrintf(FALSE)
            /\ Log("write_failed")
  /\ UNCHANGED <<run, prev, argc, argv, env, result, passed, stderr, exitCode>>

\* Line 19: return 0.
ReturnFromMain ==
  /\ pc = "returning"
  /\ exitCode' = <<MainReturnValue>>
  /\ pc' = "exited"
  /\ Log("exit")
  /\ UNCHANGED <<run, prev, argc, argv, env, result, passed, stdout, stderr>>

\* Line 15: the executable is run again, as a new process.
Restart ==
  /\ Terminated
  /\ run < MaxRuns
  /\ run' = run + 1
  /\ prev' = <<Outcome>>
  /\ argv' \in Argvs
  /\ argc' = Len(argv')
  /\ env' \in StdoutStates
  /\ pc' = "start"
  /\ result' = <<>>
  /\ passed' = <<>>
  /\ stdout' = <<>>
  /\ stderr' = <<>>
  /\ exitCode' = <<>>
  /\ events' = <<>>

Next ==
  \/ CallEntryPoint
  \/ EntryPointReturns
  \/ EntryPointAborts
  \/ Printf
  \/ ReturnFromMain
  \/ Restart

Spec == Init /\ [][Next]_vars

\* The thread keeps executing main's own statements; the external call is
\* not obliged to return.
FairSpec ==
  Spec /\ WF_vars(CallEntryPoint) /\ WF_vars(Printf) /\ WF_vars(ReturnFromMain)

-----------------------------------------------------------------------------
(* Decimal notation, read back: the number a text denotes *)

WideLimbs == NumLimbs + 1

\* The unsigned u with one more (zero) limb, so that no text of up to
\* MaxDigits digits overflows it.
Widen(u) == [i \in 1..WideLimbs |-> IF i <= Len(u) THEN u[i] ELSE 0]

\* u * 10 + d
MulAdd10(u, d) ==
  LET c[i \in 0..Len(u)] ==
        IF i = 0 THEN d ELSE (u[i] * 10 + c[i - 1]) \div Base
  IN  [i \in 1..Len(u) |-> (u[i] * 10 + c[i - 1]) % Base]

IsDigit(ch) == \E d \in 0..9 : DigitChar(d) = ch
DigitValue(ch) == CHOOSE d \in 0..9 : DigitChar(d) = ch
AllDigits(s) == \A i \in 1..Len(s) : IsDigit(s[i])

Front(s) == SubSeq(s, 1, Len(s) - 1)
Last(s) == s[Len(s)]

\* The number written by the digits s, in WideLimbs limbs.
RECURSIVE DigitsValue(_)
DigitsValue(s) ==
  IF s = <<>> THEN [i \in 1..WideLimbs |-> 0]
  ELSE MulAdd10(DigitsValue(Front(s)), DigitValue(Last(s)))

\* Longer than any int64_t in decimal, short enough for WideLimbs limbs.
MaxDigits == 20

HasMinus(text) == Len(text) > 0 /\ text[1] = "-"
DigitsOf(text) == IF HasMinus(text) THEN Tail(text) ELSE text

\* text is an optional '-' and then digits, and the number it writes is r.
Denotes(text, r) ==
  /\ Len(DigitsOf(text)) \in 1..MaxDigits
  /\ AllDigits(DigitsOf(text))
  /\ DigitsValue(DigitsOf(text)) = Widen(Magnitude(r))
  /\ HasMinus(text) => IsNegative(r) \/ IsZero(r)
  /\ IsNegative(r) => HasMinus(text)

\* text is in canonical form for r: '-' exactly for a negative r, then
\* digits only, the first of which is 0 only when it is the only one.
Canonical(text, r) ==
  /\ HasMinus(text) <=> IsNegative(r)
  /\ Len(DigitsOf(text)) >= 1
  /\ AllDigits(DigitsOf(text))
  /\ DigitsOf(text)[1] = "0" => Len(DigitsOf(text)) = 1

\* The run ended after the external call returned.
Returned == result # <<>>
Count(e) == Cardinality({i \in 1..Len(events) : events[i] = e})


Written == Count("write") > 0
IsPrefix(a, b) == Len(a) <= Len(b) /\ SubSeq(b, 1, Len(a)) = a
Occurrences(s, ch) == Cardinality({i \in 1..Len(s) : s[i] = ch})

MinLine == << "-", "9", "2", "2", "3", "3", "7", "2", "0", "3", "6", "8",
              "5", "4", "7", "7", "5", "8", "0", "8", "\n" >>
MaxLine == << "9", "2", "2", "3", "3", "7", "2", "0", "3", "6", "8", "5",
              "4", "7", "7", "5", "8", "0", "7", "\n" >>

\* The previous run and this one ended, and the external entry point
\* returned the same value to both, under the same state of the host.
SameResultTwice ==
  /\ prev # <<>>
  /\ Terminated
  /\ Returned
  /\ prev[1].result = result
  /\ prev[1].env = env

SameAsPrevious ==
  /\ prev[1].stdout = stdout
  /\ prev[1].stderr = stderr
  /\ prev[1].exitCode = exitCode
  /\ prev[1].pc = pc

-----------------------------------------------------------------------------
(* The claims *)

\* C1: for every value r the external entry point returns, a run whose
\* standard output accepts the write ends by main returning, with exit code
\* 0 and with standard output holding exactly the decimal string of r
\* (the canonical text that denotes r) followed by one newline.
C1_OutputAndExit ==
  (Terminated /\ Returned /\ env = "writable") =>
    /\ pc = "exited"
    /\ exitCode = <<0>>
    /\ Len(stdout) >= 2
    /\ Last(stdout) = "\n"
    /\ Denotes(Front(stdout), result)
    /\ Canonical(Front(stdout), result)

C1_Witness ==
  /\ pc = "exited"
  /\ env = "writable"
  /\ result = HundredThousand
  /\ stdout = <<"1", "0", "0", "0", "0", "0", "\n">>
  /\ exitCode = <<0>>

\* C2: the number written is never cut to fewer than 64 bits: for every r
\* outside the 32-bit signed range the text written denotes r and does not
\* denote r reduced to 32 bits, and the two ends of the 64-bit range give
\* "-9223372036854775808\n" and "9223372036854775807\n".
C2_NoTruncation ==
  Written =>
    /\ result # SignExtend32(result) =>
         /\ Denotes(Front(stdout), result)
         /\ ~Denotes(Front(stdout), SignExtend32(result))
    /\ result = Int64Min => stdout = MinLine
    /\ result = Int64Max => stdout = MaxLine

C2_Witness ==
  /\ prev # <<>>
  /\ prev[1].result = Int64Min
  /\ prev[1].stdout = MinLine
  /\ result = Int64Max
  /\ stdout = MaxLine

\* C3: the text written is the canonical signed decimal form: no leading
\* zero, '-' first exactly when r < 0, never a '+', and exactly one newline,
\* which ends it; 0 gives "0\n" and -1 gives "-1\n".
C3_CanonicalForm ==
  Written =>
    /\ Canonical(Front(stdout), result)
    /\ Occurrences(stdout, "+") = 0
    /\ Occurrences(stdout, "\n") = 1
    /\ Last(stdout) = "\n"
    /\ result = Zero64 => stdout = <<"0", "\n">>
    /\ result = FromInt(-1) => stdout = <<"-", "1", "\n">>

C3_Witness ==
  /\ prev # <<>>
  /\ prev[1].result = Zero64
  /\ prev[1].stdout = <<"0", "\n">>
  /\ result = FromInt(-1)
  /\ stdout = <<"-", "1", "\n">>

\* C4: in every state of every run, standard output holds nothing or the
\* one formatted line, with no character before or after it, and the line
\* is written at most once.
C4_OnlyTheLine ==
  /\ stdout = <<>> \/ (Returned /\ stdout = Format(result) \o <<"\n">>)
  /\ Count("write") <= 1

C4_Witness ==
  /\ pc = "exited"
  /\ Count("write") = 1
  /\ stdout = <<"9", "0", "7", "\n">>

\* C5: whenever main reaches its end the exit code is 0, whatever the
\* result (negative, zero) and whatever the write did, and main produces no
\* other exit code.
C5_ExitCodeZero ==
  /\ pc = "exited" => exitCode = <<0>>
  /\ exitCode # <<>> => (exitCode = <<0>> /\ pc = "exited")

C5_Witness ==
  /\ prev # <<>>
  /\ prev[1].pc = "exited"
  /\ prev[1].result = FromInt(-10)
  /\ prev[1].exitCode = <<0>>
  /\ pc = "exited"
  /\ env = "closed"
  /\ result = Zero64
  /\ exitCode = <<0>>

\* C6: two runs with the same returned value, the same arguments and the
\* same state of the host end the same way, with the same standard output
\* and the same exit code: nothing is carried from one run to the next.
C6_SameRunSameOutput ==
  (SameResultTwice /\ prev[1].argv = argv) => SameAsPrevious

C6_Witness ==
  /\ SameResultTwice
  /\ prev[1].argv = argv
  /\ pc = "exited"
  /\ env = "writable"
  /\ stdout = <<"1", "0", "\n">>

\* C7: the command-line arguments are not consulted: two runs that differ
\* in argc and argv and whose external entry point returns the same value
\* end with the same standard output and exit code, and the external entry
\* point is called with no argument.
C7_ArgumentsUnused ==
  /\ passed = <<>>
  /\ (SameResultTwice /\ prev[1].argv # argv) => SameAsPrevious

C7_Witness ==
  /\ SameResultTwice
  /\ Len(prev[1].argv) # argc
  /\ Count("call") = 1
  /\ pc = "exited"
  /\ env = "writable"
  /\ stdout = <<"-", "1", "0", "\n">>

\* C8: a run computes and then reports, in that order and once each: what
\* it has done is always a beginning of call, return, write, exit (or of
\* the same with an abort inside the call, or with a write that fails), the
\* position of the thread follows from it, and a run that main returned
\* from has called the entry point once and used standard output once.
RunShapes ==
  { <<"call", "return", "write", "exit">>,
    <<"call", "return", "write_failed", "exit">>,
    <<"call", "abort">> }

C8_TwoPhases ==
  /\ \E s \in RunShapes : IsPrefix(events, s)
  /\ pc = "start" <=> events = <<>>
  /\ pc = "computing" <=> events = <<"call">>
  /\ pc = "reporting" <=> events = <<"call", "return">>
  /\ stdout # <<>> => IsPrefix(<<"call", "return", "write">>, events)
  /\ pc = "exited" =>
       /\ Count("call") = 1
       /\ Count("write") + Count("write_failed") = 1
       /\ Last(events) = "exit"

C8_Witness ==
  /\ run = 2
  /\ pc = "exited"
  /\ events = <<"call", "return", "write", "exit">>
  /\ stdout = <<"1", "\n">>

\* C9: no failure is handled: nothing is ever written to standard error;
\* when the external call aborts the run ends there, with nothing on
\* standard output and without the return of 0; when the write fails it is
\* not tried again, the entry point is not called again and nothing is
\* written in its place.
C9_NoLocalHandling ==
  /\ stderr = <<>>
  /\ pc = "aborted" =>
       /\ events = <<"call", "abort">>
       /\ stdout = <<>>
       /\ exitCode = <<>>
  /\ Count("write_failed") > 0 =>
       /\ Count("write_failed") = 1
       /\ Count("write") = 0
       /\ Count("call") = 1
       /\ stdout = <<>>

C9_Witness ==
  /\ prev # <<>>
  /\ prev[1].pc = "aborted"
  /\ prev[1].stdout = <<>>
  /\ pc = "exited"
  /\ env = "closed"
  /\ Count("write_failed") = 1

\* C10: once the external call has returned, the run ends: main writes and
\* returns, or the failed write ends the process; a run that never ends
\* stays inside the external call for ever.
C10_Terminates ==
  /\ (pc = "reporting") ~> (pc \in {"exited", "killed"})
  /\ <>[](pc = "computing" \/ Terminated)

C10_Witness ==
  /\ pc = "killed"
  /\ events = <<"call", "return", "write_failed">>
  /\ result = Pow32

=============================================================================
